---- MODULE Spec2Model ----
(***************************************************************************)
(* Model of ground_time_app_with_ron_dropdown.py: the arrival/departure    *)
(* matching loop (lines 47-66), the week selection and week filter (lines  *)
(* 74-92) and the per-day segment branches (lines 154-195).                *)
(*                                                                         *)
(* Time is counted in slots; SlotsPerDay consecutive slots make one        *)
(* calendar day and slot 0 of a day is its midnight 00:00.  Day 0 is a     *)
(* Monday, so ISO week w holds the days 7w .. 7w+6.  Rows whose timestamp  *)
(* failed to parse (NaT, which every comparison rejects) and the           *)
(* AIRLINEDESIGNATOR column, which only picks a colour, are left out.      *)
(*                                                                         *)
(* arrivals and departures are the two input tables; a departure's row     *)
(* label dep.name is its position in departures.  pairs is a history       *)
(* variable: for each entry of matched, the arrival row and the departure  *)
(* row it was built from.  pc is the script's position.                    *)
(*                                                                         *)
(* Spec runs the whole script on short schedules around the end of a week; *)
(* SpecMatch runs the matching pass alone on longer schedules.             *)
(***************************************************************************)
EXTENDS Integers, Sequences, FiniteSets

VARIABLES arrivals, departures, i, matched, pairs, used_departures, pc,
          selected_week, start_of_week, end_of_week, filtered_df, day, segments

vars == <<arrivals, departures, i, matched, pairs, used_departures, pc,
          selected_week, start_of_week, end_of_week, filtered_df, day, segments>>

\* ---------------------------------------------------------------- bounds
\* Rows of each input table fed to the matching pass (specification SpecMatch).
MaxArr == 2
MaxDep == 2
\* SpecMatch draws its timestamps from the slots 0..MaxTime.
MaxTime == 3
\* Slots per calendar day; slot 0 of a day is 00:00.
SlotsPerDay == 3
\* Rows of each input table fed to the whole script (specification Spec), whose
\* timestamps lie in the last WindowDays-1 days of week 0 and the Monday of week 1.
MaxStays == 1
WindowDays == 4

\* ------------------------------------------------------ program constants
\* An ISO week (%G_%V, %u) has seven days, the first a Monday.
DaysPerWeek == 7
\* end_of_week = start_of_week + timedelta(days=6)
WeekSpanDays == 6

Keys == {<<"N1", "JFK">>, <<"N1", "LAX">>}
WeekKeys == {<<"N1", "JFK">>}

Times == 0..MaxTime
WeekTimes == ((DaysPerWeek + 1 - WindowDays) * SlotsPerDay)
                 .. ((DaysPerWeek + 1) * SlotsPerDay - 1)

ArrivalRows(K, T) ==
    {[INFORM_AC |-> k[1], STATION |-> k[2], ARRIVE_DATE_TIME_LOCAL |-> t] :
        k \in K, t \in T}
DepartureRows(K, T) ==
    {[INFORM_AC |-> k[1], STATION |-> k[2], DEPART_DATE_TIME_LOCAL |-> t] :
        k \in K, t \in T}

SeqsUpTo(S, n) == UNION {[1..m -> S] : m \in 0..n}

\* ------------------------------------------------------------ the matcher
\* SameAc with >= in place of >.
SameAcNonStrict(arr) ==
    {d \in 1..Len(departures) :
        /\ departures[d].INFORM_AC = arr.INFORM_AC
        /\ departures[d].STATION = arr.STATION
        /\ departures[d].DEPART_DATE_TIME_LOCAL >= arr.ARRIVE_DATE_TIME_LOCAL}
\* same_ac before sorting: the departure rows of the arrival's aircraft and
\* station that leave strictly later than the arrival.
SameAc(arr) ==
    {d \in 1..Len(departures) :
        /\ departures[d].INFORM_AC = arr.INFORM_AC
        /\ departures[d].STATION = arr.STATION
        /\ departures[d].DEPART_DATE_TIME_LOCAL > arr.ARRIVE_DATE_TIME_LOCAL}

\* Unused without the membership test.
UnusedNoCheck(S, used) == S
\* `if dep.name not in used_departures`
Unused(S, used) == {d \in S : d \notin used}

\* EarliestOf with the sort descending.
LatestOf(S) ==
    {d \in S : \A e \in S :
        departures[e].DEPART_DATE_TIME_LOCAL <= departures[d].DEPART_DATE_TIME_LOCAL}
\* sort_values('DEPART_DATE_TIME_LOCAL') followed by the scan that stops at the
\* first hit: the rows of S with the least timestamp.  Rows with equal
\* timestamps may come out of the (unstable) sort in either order.
EarliestOf(S) ==
    {d \in S : \A e \in S :
        departures[d].DEPART_DATE_TIME_LOCAL <= departures[e].DEPART_DATE_TIME_LOCAL}

\* The departure rows the inner loop can stop at for this arrival.
Claimable(arr, used) == EarliestOf(Unused(SameAc(arr), used))

Turnaround(arr, dep) ==
    [STATION |-> arr.STATION,
     INFORM_AC |-> arr.INFORM_AC,
     ARRIVE |-> arr.ARRIVE_DATE_TIME_LOCAL,
     DEPART |-> dep.DEPART_DATE_TIME_LOCAL]

\* One iteration of `for _, arr in arrivals.iterrows()`.
MatchArrival ==
    /\ pc = "match"
    /\ i <= Len(arrivals)
    /\ LET arr == arrivals[i]
           C == Claimable(arr, used_departures)
       IN  \/ /\ C = {}
              /\ UNCHANGED <<matched, pairs, used_departures>>
           \/ \E d \in C :
                /\ matched' = Append(matched, Turnaround(arr, departures[d]))
                /\ pairs' = Append(pairs, [arr |-> i, dep |-> d])
                /\ used_departures' = used_departures \cup {d}
    /\ i' = i + 1
    /\ UNCHANGED <<arrivals, departures, pc, selected_week, start_of_week,
                   end_of_week, filtered_df, day, segments>>

\* End of the loop; an empty matched_df stops the script.
MatchDone ==
    /\ pc = "match"
    /\ i > Len(arrivals)
    /\ pc' = IF matched = <<>> THEN "stopped" ELSE "select"
    /\ UNCHANGED <<arrivals, departures, i, matched, pairs, used_departures,
                   selected_week, start_of_week, end_of_week, filtered_df,
                   day, segments>>

\* The whole matching pass as a function of the order in which the arrival
\* rows are visited: order is a sequence of arrival row numbers, k the next
\* position, used the departure rows claimed so far, acc the
\* <<arrival row, DEPART>> pairs produced so far.
RECURSIVE RunMatcher(_, _, _, _)
RunMatcher(order, k, used, acc) ==
    IF k > Len(order) THEN acc
    ELSE LET arr == arrivals[order[k]]
             C == Claimable(arr, used)
         IN  IF C = {} THEN RunMatcher(order, k + 1, used, acc)
             ELSE LET d == CHOOSE x \in C : TRUE
                  IN  RunMatcher(order, k + 1, used \cup {d},
                          acc \cup {<<order[k], departures[d].DEPART_DATE_TIME_LOCAL>>})

\* ------------------------------------------------- week label and filter
\* .dt.date of a timestamp, and the midnight that starts a date.
DateOf(t) == t \div SlotsPerDay
Midnight(D) == D * SlotsPerDay

\* strftime("%G_%V"): the ISO week a timestamp falls in.
WeekOf(t) == DateOf(t) \div DaysPerWeek
\* strptime(f'{year}-W{week}-1', "%G-W%V-%u"): 00:00 of that week's Monday.
StartOfWeek(w) == Midnight(w * DaysPerWeek)
\* start_of_week + timedelta(days=6): 00:00 of that week's Sunday.
EndOfWeek(w) == StartOfWeek(w) + WeekSpanDays * SlotsPerDay

\* unique_weeks
UniqueWeeks == {WeekOf(matched[k].ARRIVE) : k \in 1..Len(matched)}

\* The boolean mask of the week filter.
InWeek(r, start, end) ==
    \/ (r.ARRIVE >= start /\ r.ARRIVE <= end)
    \/ (r.DEPART >= start /\ r.DEPART <= end)

\* A row of filtered_df: the matched row under its index label, with the WEEK
\* column and the two helper date columns.
FilteredRow(k) ==
    [idx |-> k,
     STATION |-> matched[k].STATION,
     INFORM_AC |-> matched[k].INFORM_AC,
     ARRIVE |-> matched[k].ARRIVE,
     DEPART |-> matched[k].DEPART,
     WEEK |-> WeekOf(matched[k].ARRIVE),
     ARRIVE_DATE |-> DateOf(matched[k].ARRIVE),
     DEPART_DATE |-> DateOf(matched[k].DEPART)]

RECURSIVE FilterRows(_, _, _)
FilterRows(k, start, end) ==
    IF k > Len(matched) THEN <<>>
    ELSE (IF InWeek(matched[k], start, end) THEN <<FilteredRow(k)>> ELSE <<>>)
             \o FilterRows(k + 1, start, end)

\* The user picks one of the weeks on offer; the week's bounds follow.
SelectWeek ==
    /\ pc = "select"
    /\ \E w \in UniqueWeeks :
         /\ selected_week' = w
         /\ start_of_week' = StartOfWeek(w)
         /\ end_of_week' = EndOfWeek(w)
    /\ pc' = "filter"
    /\ UNCHANGED <<arrivals, departures, i, matched, pairs, used_departures,
                   filtered_df, day, segments>>

FilterWeek ==
    /\ pc = "filter"
    /\ filtered_df' = FilterRows(1, start_of_week, end_of_week)
    /\ day' = DateOf(start_of_week)
    /\ pc' = "plot"
    /\ UNCHANGED <<arrivals, departures, i, matched, pairs, used_departures,
                   selected_week, start_of_week, end_of_week, segments>>

\* ------------------------------------------------------ per-day segments
\* FlightsToday without the DEPART_DATE test.
FlightsTodayArriveOnly(D) ==
    {k \in 1..Len(filtered_df) : filtered_df[k].ARRIVE_DATE = D}
\* flights_today: the positions of the rows of filtered_df on the day's chart.
FlightsToday(D) ==
    {k \in 1..Len(filtered_df) :
        filtered_df[k].ARRIVE_DATE = D \/ filtered_df[k].DEPART_DATE = D}

\* DaySegments with the first branch taken by every row of the day, so that no
\* window is clipped at midnight.
DaySegmentsUnclipped(row, D) ==
    IF row.ARRIVE_DATE = D \/ row.DEPART_DATE = D
    THEN <<[day |-> D, row |-> row.idx, kind |-> "SAME_DAY",
            window_start |-> row.ARRIVE, window_end |-> row.DEPART]>>
    ELSE <<>>
\* The bar drawn for one row on one day: the three branches, in order.  A row
\* that takes no branch gets no bar.
DaySegments(row, D) ==
    IF row.ARRIVE_DATE = D /\ row.DEPART_DATE = D
    THEN <<[day |-> D, row |-> row.idx, kind |-> "SAME_DAY",
            window_start |-> row.ARRIVE, window_end |-> row.DEPART]>>
    ELSE IF row.ARRIVE_DATE = D
    THEN <<[day |-> D, row |-> row.idx, kind |-> "OVERNIGHT_ARRIVAL",
            window_start |-> row.ARRIVE, window_end |-> Midnight(D + 1)]>>
    ELSE IF row.DEPART_DATE = D
    THEN <<[day |-> D, row |-> row.idx, kind |-> "OVERNIGHT_DEPARTURE",
            window_start |-> Midnight(D), window_end |-> row.DEPART]>>
    ELSE <<>>

\* The bars of one day's chart, in row order.
RECURSIVE DayChart(_, _)
DayChart(k, D) ==
    IF k > Len(filtered_df) THEN <<>>
    ELSE (IF k \in FlightsToday(D) THEN DaySegments(filtered_df[k], D) ELSE <<>>)
             \o DayChart(k + 1, D)

\* One iteration of `for day in pd.date_range(start_of_week, end_of_week)`.
PlotDay ==
    /\ pc = "plot"
    /\ day <= DateOf(end_of_week)
    /\ segments' = segments \o DayChart(1, day)
    /\ day' = day + 1
    /\ UNCHANGED <<arrivals, departures, i, matched, pairs, used_departures, pc,
                   selected_week, start_of_week, end_of_week, filtered_df>>

PlotDone ==
    /\ pc = "plot"
    /\ day > DateOf(end_of_week)
    /\ pc' = "done"
    /\ UNCHANGED <<arrivals, departures, i, matched, pairs, used_departures,
                   selected_week, start_of_week, end_of_week, filtered_df,
                   day, segments>>

\* ------------------------------------------------------- specifications
InitVars ==
    /\ i = 1
    /\ matched = <<>>
    /\ pairs = <<>>
    /\ used_departures = {}
    /\ pc = "match"
    /\ selected_week = -1
    /\ start_of_week = -1
    /\ end_of_week = -1
    /\ filtered_df = <<>>
    /\ day = -1
    /\ segments = <<>>

\* The whole script on schedules around the end of a week.
Init ==
    /\ arrivals \in SeqsUpTo(ArrivalRows(WeekKeys, WeekTimes), MaxStays)
    /\ departures \in SeqsUpTo(DepartureRows(WeekKeys, WeekTimes), MaxStays)
    /\ InitVars

Next ==
    \/ MatchArrival
    \/ MatchDone
    \/ SelectWeek
    \/ FilterWeek
    \/ PlotDay
    \/ PlotDone

Spec == Init /\ [][Next]_vars

\* The matching pass alone on larger schedules of two aircraft.
InitMatch ==
    /\ arrivals \in SeqsUpTo(ArrivalRows(Keys, Times), MaxArr)
    /\ departures \in SeqsUpTo(DepartureRows(Keys, Times), MaxDep)
    /\ InitVars

NextMatch ==
    \/ MatchArrival
    \/ MatchDone

SpecMatch == InitMatch /\ [][NextMatch]_vars

\* ------------------------------------------------------------ properties
SameKey(x, y) == x.INFORM_AC = y.INFORM_AC /\ x.STATION = y.STATION

\* Departure row d may be paired with arrival row a: same aircraft, same
\* station, strictly later.
PairOK(a, d) ==
    /\ SameKey(arrivals[a], departures[d])
    /\ departures[d].DEPART_DATE_TIME_LOCAL > arrivals[a].ARRIVE_DATE_TIME_LOCAL

Combo(r) == <<r.DEPART, r.INFORM_AC, r.STATION>>
DepCombo(d) == <<d.DEPART_DATE_TIME_LOCAL, d.INFORM_AC, d.STATION>>

MaxOf(S) == CHOOSE x \in S : \A y \in S : y <= x

\* The most pairs any pairing of the arrival rows A with the departure rows D
\* can hold when each row is in at most one pair.
RECURSIVE MaxPairs(_, _)
MaxPairs(A, D) ==
    IF A = {} THEN 0
    ELSE LET a == CHOOSE x \in A : TRUE
             rest == A \ {a}
         IN  MaxOf({MaxPairs(rest, D)} \cup
                   {1 + MaxPairs(rest, D \ {d}) : d \in {e \in D : PairOK(a, e)}})

Perms(n) == {p \in [1..n -> 1..n] : \A x, y \in 1..n : x # y => p[x] # p[y]}

\* The aircraft has left a station before it arrives there again: between two
\* arrival rows of one aircraft at one station lies a departure of it, later
\* than the first arrival and no later than the second.
ConflictFree ==
    \A a, b \in 1..Len(arrivals) :
        (/\ a # b
         /\ SameKey(arrivals[a], arrivals[b])
         /\ arrivals[a].ARRIVE_DATE_TIME_LOCAL <= arrivals[b].ARRIVE_DATE_TIME_LOCAL)
        => \E d \in 1..Len(departures) :
              /\ PairOK(a, d)
              /\ departures[d].DEPART_DATE_TIME_LOCAL
                     <= arrivals[b].ARRIVE_DATE_TIME_LOCAL

\* C1: at every point of the matching pass no departure row is the departure
\* of two entries of matched, every entry of matched is built from the arrival
\* and departure rows recorded for it, and used_departures holds exactly the
\* departure rows turnarounds were produced from.
C1_NoDepartureRowReuse ==
    /\ Len(pairs) = Len(matched)
    /\ \A k \in 1..Len(pairs) :
         /\ pairs[k].arr \in 1..Len(arrivals)
         /\ pairs[k].dep \in 1..Len(departures)
         /\ matched[k] = Turnaround(arrivals[pairs[k].arr], departures[pairs[k].dep])
    /\ \A k, l \in 1..Len(pairs) : k # l => pairs[k].dep # pairs[l].dep
    /\ used_departures = {pairs[k].dep : k \in 1..Len(pairs)}

\* Two turnarounds of one aircraft at one station, the second arrival having
\* been offered the departure the first one claimed.
C1_Witness ==
    \E k, l \in 1..Len(pairs) :
        /\ k < l
        /\ PairOK(pairs[l].arr, pairs[k].dep)
        /\ pairs[k].dep \in used_departures

\* C2 as stated: no two turnarounds share departure timestamp, aircraft and
\* station.
C2_NoComboReuse ==
    \A k, l \in 1..Len(matched) : k # l => Combo(matched[k]) # Combo(matched[l])

\* C2 amended: a departure timestamp+aircraft+station combination is in no more
\* turnarounds than the input has departure rows with that combination.
C2_ComboWithinRows ==
    \A k \in 1..Len(matched) :
        Cardinality({l \in 1..Len(matched) : Combo(matched[l]) = Combo(matched[k])})
            <= Cardinality({d \in 1..Len(departures) :
                               DepCombo(departures[d]) = Combo(matched[k])})

\* Two arrivals were matched while the input has two departure rows with the
\* same timestamp, aircraft and station as the first one's departure.
C2_Witness ==
    /\ pc = "stopped" \/ pc = "select"
    /\ \E k, l \in 1..Len(matched) :
         /\ k # l
         /\ SameKey(matched[k], matched[l])
         /\ \E d, e \in 1..Len(departures) :
              /\ d # e
              /\ DepCombo(departures[d]) = Combo(matched[k])
              /\ DepCombo(departures[e]) = Combo(matched[k])

\* C3: each iteration of the matching loop pairs its arrival with a departure
\* row of the least timestamp among the unused eligible ones, and leaves the
\* result alone when there is none.
C3_Step ==
    (pc = "match" /\ i <= Len(arrivals) /\ i' = i + 1) =>
        LET E == {d \in 1..Len(departures) : PairOK(i, d) /\ d \notin used_departures}
        IN  IF E = {}
            THEN matched' = matched /\ used_departures' = used_departures
            ELSE /\ Len(matched') = Len(matched) + 1
                 /\ pairs'[Len(pairs')].arr = i
                 /\ pairs'[Len(pairs')].dep \in E
                 /\ matched'[Len(matched')].ARRIVE = arrivals[i].ARRIVE_DATE_TIME_LOCAL
                 /\ \A e \in E :
                      matched'[Len(matched')].DEPART
                          <= departures[e].DEPART_DATE_TIME_LOCAL
C3_EarliestUnusedEligible == [][C3_Step]_vars

\* Two arrivals competed for one departure: the one processed first holds it
\* and the later one holds a strictly later departure.
C3_Witness ==
    \E k, l \in 1..Len(pairs) :
        /\ k < l
        /\ PairOK(pairs[l].arr, pairs[k].dep)
        /\ matched[l].DEPART > matched[k].DEPART

\* C4: every turnaround in matched leaves strictly later than it arrives.
C4_DepartAfterArrive ==
    \A k \in 1..Len(matched) : matched[k].DEPART > matched[k].ARRIVE

\* A matched arrival whose aircraft also has, at that station, a departure row
\* with the arrival's own timestamp.
C4_Witness ==
    \E k \in 1..Len(pairs) : \E d \in 1..Len(departures) :
        /\ SameKey(arrivals[pairs[k].arr], departures[d])
        /\ departures[d].DEPART_DATE_TIME_LOCAL
               = arrivals[pairs[k].arr].ARRIVE_DATE_TIME_LOCAL

\* C5: when the pass is over, matched holds as many pairs as any pairing of
\* the input can hold, and no unmatched arrival has an unused eligible
\* departure left.
C5_MaximalMatching ==
    pc # "match" =>
        /\ Len(matched) = MaxPairs(1..Len(arrivals), 1..Len(departures))
        /\ \A a \in 1..Len(arrivals) :
             (\A k \in 1..Len(pairs) : pairs[k].arr # a)
                 => \A d \in 1..Len(departures) :
                       PairOK(a, d) => d \in used_departures

\* The pass is over with two pairs where the arrival processed first could
\* have taken either departure and the other arrival only the later one.
C5_Witness ==
    /\ pc # "match"
    /\ \E k, l \in 1..Len(pairs) :
         /\ k < l
         /\ PairOK(pairs[k].arr, pairs[l].dep)
         /\ SameKey(arrivals[pairs[k].arr], arrivals[pairs[l].arr])
         /\ ~PairOK(pairs[l].arr, pairs[k].dep)

\* C6: on a conflict-free schedule every processing order of the arrival rows
\* yields the <<arrival row, DEPART>> pairs the pass produced.
C6_OrderIndependent ==
    (pc # "match" /\ ConflictFree) =>
        \A p \in Perms(Len(arrivals)) :
            RunMatcher(p, 1, {}, {})
                = {<<pairs[k].arr, matched[k].DEPART>> : k \in 1..Len(pairs)}

\* A conflict-free schedule whose two stays of one aircraft at one station
\* were processed later stay first, both matched.
C6_Witness ==
    /\ pc # "match"
    /\ ConflictFree
    /\ \E k, l \in 1..Len(pairs) :
         /\ k < l
         /\ SameKey(matched[k], matched[l])
         /\ matched[k].ARRIVE > matched[l].ARRIVE

\* The calendar days of the selected week's charts.
WeekDates == DateOf(start_of_week) .. DateOf(end_of_week)
\* The positions in segments of the bars drawn for matched row k on day D.
BarsOf(k, D) ==
    {n \in 1..Len(segments) : segments[n].row = k /\ segments[n].day = D}
\* Exactly one bar for matched row k on day D, of this kind and window.
OneBar(k, D, kind, from, to) ==
    /\ Cardinality(BarsOf(k, D)) = 1
    /\ \A n \in BarsOf(k, D) :
         /\ segments[n].kind = kind
         /\ segments[n].window_start = from
         /\ segments[n].window_end = to
\* What the segmenter owes turnaround t (index label k) on day D, given the
\* bars it returned for them.
Classified(k, t, D, bars) ==
    LET onA == DateOf(t.ARRIVE) = D
        onD == DateOf(t.DEPART) = D
        bar(kind, from, to) ==
            <<[day |-> D, row |-> k, kind |-> kind,
               window_start |-> from, window_end |-> to]>>
    IN  /\ (onA /\ onD) => bars = bar("SAME_DAY", t.ARRIVE, t.DEPART)
        /\ (onA /\ ~onD) => bars = bar("OVERNIGHT_ARRIVAL", t.ARRIVE, Midnight(D + 1))
        /\ (onD /\ ~onA) => bars = bar("OVERNIGHT_DEPARTURE", Midnight(D), t.DEPART)
        /\ (~onA /\ ~onD) => bars = <<>>

\* C7 as stated: every bar has a non-empty window inside its day.
C7_WindowNonEmpty ==
    \A n \in 1..Len(segments) :
        /\ Midnight(segments[n].day) <= segments[n].window_start
        /\ segments[n].window_start < segments[n].window_end
        /\ segments[n].window_end <= Midnight(segments[n].day) + SlotsPerDay

\* C8: for every turnaround and every date the segmenter returns no bar or
\* one, classified by which of arrival date and departure date is that date;
\* and every chart drawn so far holds, for each row of filtered_df, exactly
\* that bar.
C8_Classification ==
    /\ \A k \in 1..Len(matched) :
         \A D \in (DateOf(matched[k].ARRIVE) - 1) .. (DateOf(matched[k].DEPART) + 1) :
            Classified(k, matched[k], D, DaySegments(FilteredRow(k), D))
    /\ (pc = "plot" \/ pc = "done") =>
         \A r \in 1..Len(filtered_df) : \A D \in WeekDates :
            D < day =>
               LET k == filtered_df[r].idx
                   t == matched[k]
                   onA == DateOf(t.ARRIVE) = D
                   onD == DateOf(t.DEPART) = D
               IN  /\ (onA /\ onD) => OneBar(k, D, "SAME_DAY", t.ARRIVE, t.DEPART)
                   /\ (onA /\ ~onD) =>
                        OneBar(k, D, "OVERNIGHT_ARRIVAL", t.ARRIVE, Midnight(D + 1))
                   /\ (onD /\ ~onA) =>
                        OneBar(k, D, "OVERNIGHT_DEPARTURE", Midnight(D), t.DEPART)
                   /\ (~onA /\ ~onD) => BarsOf(k, D) = {}

\* All charts are drawn and one turnaround has an OVERNIGHT_ARRIVAL bar and,
\* on the next chart, an OVERNIGHT_DEPARTURE bar that ends after 00:00.
C8_Witness ==
    /\ pc = "done"
    /\ \E n, m \in 1..Len(segments) :
         /\ segments[n].row = segments[m].row
         /\ segments[n].kind = "OVERNIGHT_ARRIVAL"
         /\ segments[m].kind = "OVERNIGHT_DEPARTURE"
         /\ segments[m].day = segments[n].day + 1
         /\ segments[m].window_end > segments[m].window_start

\* C9: a turnaround whose arrival day and departure day have whole days
\* between them gets no bar on a day between them, and, when the week's charts
\* cover both days, exactly two bars: OVERNIGHT_ARRIVAL on its arrival day and
\* OVERNIGHT_DEPARTURE on its departure day.
C9_TwoSegmentsNoInterior ==
    \A k \in 1..Len(matched) :
        LET t == matched[k]
            A == DateOf(t.ARRIVE)
            B == DateOf(t.DEPART)
        IN  B - A >= 2 =>
              /\ \A D \in (A + 1) .. (B - 1) :
                   /\ DaySegments(FilteredRow(k), D) = <<>>
                   /\ BarsOf(k, D) = {}
              /\ (pc = "done" /\ A \in WeekDates /\ B \in WeekDates) =>
                   /\ Cardinality({n \in 1..Len(segments) : segments[n].row = k}) = 2
                   /\ OneBar(k, A, "OVERNIGHT_ARRIVAL", t.ARRIVE, Midnight(A + 1))
                   /\ OneBar(k, B, "OVERNIGHT_DEPARTURE", Midnight(B), t.DEPART)

\* All charts are drawn, among them those of the arrival day, the departure
\* day and a day between them of one turnaround.
C9_Witness ==
    /\ pc = "done"
    /\ \E k \in 1..Len(matched) :
         /\ DateOf(matched[k].DEPART) - DateOf(matched[k].ARRIVE) >= 2
         /\ DateOf(matched[k].ARRIVE) \in WeekDates
         /\ DateOf(matched[k].DEPART) \in WeekDates
         /\ \E r \in 1..Len(filtered_df) : filtered_df[r].idx = k

\* C10 as stated: when the selected week's charts are drawn, every matched
\* turnaround has a bar on each day of the week that is its arrival date or
\* its departure date.
C10_WeekCoverage ==
    pc = "done" =>
        \A k \in 1..Len(matched) : \A D \in WeekDates :
            (DateOf(matched[k].ARRIVE) = D \/ DateOf(matched[k].DEPART) = D)
                => BarsOf(k, D) # {}
====
